---- MODULE Spec2Model ----
(***************************************************************************)
(* Model of the BPUP push client of bondhome-mqtt (package bondhome):      *)
(* the handshake of StartListening, the keep-alive goroutine it spawns and *)
(* the recursive panic/recover retry of sendKeepAlive, together with the   *)
(* Receive and StopListening operations of the session and the loop of     *)
(* main that consumes the updates and publishes them.                      *)
(*                                                                         *)
(* Durations are whole seconds.  A goroutine blocked in a select on        *)
(* time.After(d) and ctx.Done() is woken by whichever channel becomes      *)
(* ready first; the timer is created on entry to the select with d > 0, so *)
(* when the context is already cancelled the Done case is the one taken.   *)
(* An unrecovered panic of a goroutine terminates the whole process.       *)
(***************************************************************************)
EXTENDS Integers, Sequences, FiniteSets, TLC

\* ---------------------------------------------------------------- bounds
MaxStarts == 2
MaxInbox == 1
SentMod == 3
MaxRedo == 2
MaxPublished == 2
MaxBurst == 2
MaxHops == 1
MaxSubs == 1

\* ------------------------------------------------------ program constants
HandshakeDeadline == 5
KeepAlivePeriod == 60
InitialBackoff == 1
RetryBudget == 120
ReceiveTimeout == 10

Tasks == 1 .. MaxStarts

\* the datagram with which the bridge answers a probe
EchoMsg == "{\"B\":\"ZZBL1\"}\n"

\* datagrams anyone at the peer's address may put on the socket: empty, not
\* JSON, and the echo that answers a probe
Datagrams == {"", "junk", EchoMsg}

\* a state update, an error message, and an object whose "s" is a string
UpdateMsg == "{\"B\":\"ZZBL1\",\"t\":\"devices/aa/state\",\"s\":200}\n"
ErrorMsg == "{\"B\":\"ZZBL1\",\"err_id\":500,\"err_msg\":\"fail\"}\n"
GarbledMsg == "{\"t\":\"devices/aa/state\",\"s\":\"x\"}\n"

\* what the bridge pushes to a client that has shaken hands
Updates == {UpdateMsg, ErrorMsg}

\* objects that do not fit the Update structure
Garbled == {GarbledMsg}

NoReply == "<none>"

\* c.conn.Write([]byte("\n")) of the handshake
HandshakeProbe == "\n"

\* variant: the keep-alive is a carriage return and a line feed
KeepAliveProbe_crlf == "\r\n"

\* conn.Write([]byte("\n")) of sendKeepAlive
KeepAliveProbe == "\n"

VARIABLES
    conn,            \* c.conn: "open" or "closed"
    cancelled,       \* ctx.Done() is closed
    crashed,         \* the process died of an unrecovered panic
    inbox,           \* datagrams waiting in the socket's receive buffer
    readDeadline,    \* seconds given to the last SetReadDeadline, 0 if none
    deadlinePassed,  \* the read deadline of the pending read has elapsed
    startsLeft,      \* StartListening calls the owner still makes
    spc,             \* position of the caller of StartListening
    hsProbe,         \* the handshake Write succeeded
    hsReply,         \* what the handshake ReadFrom returned, NoReply if nothing
    hsCause,         \* why the handshake failed, "" if it did not
    armed,           \* number of keep-alive goroutines spawned
    kpc,             \* kpc[t]: position of keep-alive goroutine t
    stack,           \* stack[t]: frames of sendKeepAlive, innermost last
    timer,           \* timer[t]: seconds of the pending time.After, 0 if none
    waits,           \* waits[t]: backoff waits of the current retry sequence
    kaSent,          \* keep-alive datagrams written, modulo SentMod
    recovered,       \* some retry of a keep-alive has succeeded
    rpc,             \* position of the caller of Receive
    rres,            \* result of the last Receive call
    rtopic,          \* Topic of the Update it returned, "" if none
    closes,          \* number of times the socket has been released
    redo,            \* teardown requests made after the first one took effect
    wire,            \* set of the payloads the client has put on the socket
    hsTries,         \* Write calls made for a handshake so far
    lpc,             \* position of the consumption loop of the owner
    published,       \* topics the consumption loop has published to
    cpc,             \* position of the encode/decode round trip
    cIn,             \* the Update that was encoded
    cWire,           \* the datagram it was encoded to
    cOut,            \* what the decode of the datagram returned
    hostname,        \* restAPIClient.hostname, "" before NewBridge
    hpc,             \* position of the call of the REST client in progress
    hop,             \* the method called
    hdev,            \* its deviceID argument
    hact,            \* its actionID argument
    harg,            \* its argumentJSON argument
    hdo,             \* calls of client.Do made by the call
    hwire,           \* HTTP requests that went out for the call
    hstatus,         \* StatusCode of the response, 0 if none
    hbody,           \* body of the response
    hres,            \* how the call ended
    hids,            \* slice returned by GetDeviceIDs
    hactions,        \* Actions of the Device returned by GetDevice
    subs,            \* subscriptions made by actionHandler
    sres,            \* what the last actionHandler call returned
    mpc,             \* position of the callback of a delivered message
    mtopic,          \* topic the message came on
    mdev,            \* deviceID the callback was created with
    mact,            \* actionID the callback was created with
    mpayload,        \* payload of the message
    mcalls,          \* ExecuteAction calls made for the message
    macked,          \* m.Ack() was called
    upc,             \* position of setupDeviceActionHandlers
    uidres,          \* how its call of GetDeviceIDs ended
    uids,            \* the device ids that call returned
    ures,            \* what setupDeviceActionHandlers returned
    gpc,             \* gpc[d]: position of the goroutine of device d
    gdev,            \* gdev[d]: how its call of GetDevice ended
    gres,            \* gres[d]: what the goroutine returned to the group
    apc              \* apc[d][a]: the actionHandler call for action a of d

kaVars == <<kpc, stack, timer, waits, kaSent, recovered>>
hsVars == <<startsLeft, spc, hsProbe, hsReply, hsCause, armed>>
rcvVars == <<rpc, rres, rtopic>>
netVars == <<conn, inbox, readDeadline, deadlinePassed>>
tdVars == <<closes, redo>>
outVars == <<wire, hsTries>>
loopVars == <<lpc, published>>
codecVars == <<cpc, cIn, cWire, cOut>>
restVars == <<hostname, hpc, hop, hdev, hact, harg, hdo, hwire, hstatus,
              hbody, hres, hids, hactions>>
handlerVars == <<subs, sres, mpc, mtopic, mdev, mact, mpayload, mcalls,
                 macked>>
setupVars == <<upc, uidres, uids, ures, gpc, gdev, gres, apc>>
bridgeVars == <<restVars, handlerVars, setupVars>>
appVars == <<codecVars, bridgeVars>>
vars == <<conn, cancelled, crashed, inbox, readDeadline, deadlinePassed,
          startsLeft, spc, hsProbe, hsReply, hsCause, armed,
          kpc, stack, timer, waits, kaSent, recovered, rpc, rres, rtopic,
          closes, redo, wire, hsTries, lpc, published,
          cpc, cIn, cWire, cOut,
          hostname, hpc, hop, hdev, hact, harg, hdo, hwire, hstatus,
          hbody, hres, hids, hactions,
          subs, sres, mpc, mtopic, mdev, mact, mpayload, mcalls, macked,
          upc, uidres, uids, ures, gpc, gdev, gres, apc>>

\* ------------------------------------------------------------- helpers
Frame(b, e) == [backoff |-> b, elapsed |-> e]

\* variant: the first call is given an elapsed time of one backoff
FirstFrame_late == Frame(InitialBackoff, InitialBackoff)

\* the call sendKeepAlive(ctx, c.conn, 1*time.Second, 0) of the goroutine
FirstFrame == Frame(InitialBackoff, 0)

\* variant: the retry adds a second to the backoff instead of doubling it
NextFrame_linear(f) == Frame(f.backoff + 1, f.elapsed + f.backoff)

\* the call sendKeepAlive(ctx, conn, 2*backoff, elapsed+backoff) of a retry
NextFrame(f) == Frame(2 * f.backoff, f.elapsed + f.backoff)

\* variant: the budget is compared with the elapsed time alone
MayRetry_elapsedOnly(f) == f.elapsed <= RetryBudget

\* (elapsed + backoff) <= 120*time.Second
MayRetry(f) == f.elapsed + f.backoff <= RetryBudget

Top(s) == s[Len(s)]
Pop(s) == SubSeq(s, 1, Len(s) - 1)

\* ------------------------------------------------- decoding of a datagram
\* the Update a decode starts from: every field has its zero value
ZeroUpdate ==
    [B |-> "", t |-> "", s |-> 0, m |-> 0, err_id |-> 0, err_msg |-> ""]

\* variant: the structure has no field for the member "err_msg"
StringTags_noErrMsg == {"B", "t"}

\* json tags of the string fields BondID, Topic and ErrorMsg
StringTags == {"B", "t", "err_msg"}

\* json tags of the int fields StatusCode and ErrorID
IntTags == {"s", "err_id"}

\* json tag of the uint8 field HTTPMethod, and the values a uint8 holds
Uint8Tags == {"m"}
Uint8Range == 256

\* a member of a JSON object: its key, the JSON type of its value, the value
Member(k, ty, v) == [k |-> k, ty |-> ty, v |-> v]

\* the text of a datagram as a JSON value: an object with its members, or
\* not an object at all
Object(ms) == [json |-> TRUE, members |-> ms]
NotJSON == [json |-> FALSE, members |-> <<>>]

\* the member can be stored in the field its key names
Fits(mem) ==
    IF mem.k \in StringTags THEN mem.ty = "string"
    ELSE IF mem.k \in IntTags THEN mem.ty = "number"
    ELSE IF mem.k \in Uint8Tags
         THEN mem.ty = "number" /\ mem.v >= 0 /\ mem.v < Uint8Range
    ELSE TRUE

\* the member stored in the record; members of unknown key, and the opaque
\* body "b", leave the record as it is
Store(u, mem) ==
    IF mem.k \in StringTags \cup IntTags \cup Uint8Tags
       THEN [u EXCEPT ![mem.k] = mem.v]
       ELSE u

RECURSIVE StoreAll(_, _)
StoreAll(u, ms) ==
    IF ms = <<>> THEN u ELSE StoreAll(Store(u, Head(ms)), Tail(ms))

\* variant: a failed decode hands out the fields it had stored
Decode_partial(w) ==
    IF w.json /\ \A i \in 1 .. Len(w.members) : Fits(w.members[i])
       THEN [ok |-> TRUE, upd |-> StoreAll(ZeroUpdate, w.members)]
       ELSE [ok |-> FALSE, upd |-> StoreAll(ZeroUpdate,
                 SelectSeq(w.members, LAMBDA mem : Fits(mem)))]

\* decode of a datagram into an Update: an error and no Update unless the
\* text is an object whose known members fit their fields
Decode(w) ==
    IF w.json /\ \A i \in 1 .. Len(w.members) : Fits(w.members[i])
       THEN [ok |-> TRUE, upd |-> StoreAll(ZeroUpdate, w.members)]
       ELSE [ok |-> FALSE, upd |-> ZeroUpdate]

\* the JSON value a datagram's text stands for
Parse(d) ==
    CASE d = EchoMsg -> Object(<<Member("B", "string", "ZZBL1")>>)
      [] d = UpdateMsg -> Object(<<Member("B", "string", "ZZBL1"),
                                   Member("t", "string", "devices/aa/state"),
                                   Member("s", "number", 200)>>)
      [] d = ErrorMsg -> Object(<<Member("B", "string", "ZZBL1"),
                                  Member("err_id", "number", 500),
                                  Member("err_msg", "string", "fail")>>)
      [] d = GarbledMsg -> Object(<<Member("t", "string", "devices/aa/state"),
                                    Member("s", "string", "x")>>)
      [] OTHER -> NotJSON

\* ---------------------------------------------- encoding, as the bridge does
\* field values of the updates that are encoded and decoded again
UpdateValues ==
    [B : {"", "ZZBL1"}, t : {"", "devices/aa/state"}, s : {0, 200},
     m : {0, 255}, err_id : {0, 500}, err_msg : {"", "fail"}]

\* members the Update structure has no field for
Extras ==
    {<<>>,
     <<Member("i", "string", "00112233")>>,
     <<Member("i", "string", "00112233"), Member("f", "number", 255),
       Member("b", "object", "{}")>>}

\* one member per field of the Update, under the field's json tag
FieldMembers(u) ==
    <<Member("B", "string", u.B), Member("t", "string", u.t),
      Member("s", "number", u.s), Member("m", "number", u.m),
      Member("err_id", "number", u.err_id),
      Member("err_msg", "string", u.err_msg)>>

IsZero(mem) == IF mem.ty = "string" THEN mem.v = "" ELSE mem.v = 0

\* the datagram of an update: its fields, all of them or only those that are
\* not zero, with the extra members after the first one
Encode(u, x, omit) ==
    LET kept == IF omit
                   THEN SelectSeq(FieldMembers(u), LAMBDA mem : ~IsZero(mem))
                   ELSE FieldMembers(u)
    IN  Object(IF kept = <<>> THEN x
                              ELSE <<Head(kept)>> \o x \o Tail(kept))

\* NewClient: the connection is dialled, nothing else has happened
\* --------------------------------------------- responses of the bridge
Body(kind, keys, typed, actions) ==
    [kind |-> kind, keys |-> keys, typed |-> typed, actions |-> actions]

NoBody == Body("none", {}, TRUE, <<>>)

DeviceIDs == {"aa", "bb", "%zz"}
ActionIDs == {"TurnOn", "SetSpeed"}

InitCommon ==
    /\ conn = "open"
    /\ cancelled = FALSE
    /\ crashed = FALSE
    /\ inbox = <<>>
    /\ readDeadline = 0
    /\ deadlinePassed = FALSE
    /\ spc = "created"
    /\ hsProbe = FALSE
    /\ hsReply = NoReply
    /\ hsCause = ""
    /\ armed = 0
    /\ kpc = [t \in Tasks |-> "none"]
    /\ stack = [t \in Tasks |-> <<>>]
    /\ timer = [t \in Tasks |-> 0]
    /\ waits = [t \in Tasks |-> <<>>]
    /\ kaSent = 0
    /\ recovered = FALSE
    /\ rpc = "idle"
    /\ rres = "none"
    /\ rtopic = ""
    /\ closes = 0
    /\ redo = 0
    /\ wire = {}
    /\ hsTries = 0
    /\ lpc = "none"
    /\ published = <<>>
    /\ cpc = "idle"
    /\ cIn = ZeroUpdate
    /\ cWire = NotJSON
    /\ cOut = [ok |-> FALSE, upd |-> ZeroUpdate]
    /\ hostname = ""
    /\ hpc = "idle"
    /\ hop = "none"
    /\ hdev = ""
    /\ hact = ""
    /\ harg = ""
    /\ hdo = 0
    /\ hwire = 0
    /\ hstatus = 0
    /\ hbody = NoBody
    /\ hres = "none"
    /\ hids = <<>>
    /\ hactions = <<>>
    /\ subs = {}
    /\ sres = "none"
    /\ mpc = "idle"
    /\ mtopic = ""
    /\ mdev = ""
    /\ mact = ""
    /\ mpayload = ""
    /\ mcalls = 0
    /\ macked = FALSE
    /\ upc = "idle"
    /\ uidres = "none"
    /\ uids = <<>>
    /\ ures = "none"
    /\ gpc = [d \in DeviceIDs |-> "none"]
    /\ gdev = [d \in DeviceIDs |-> "none"]
    /\ gres = [d \in DeviceIDs |-> "none"]
    /\ apc = [d \in DeviceIDs |-> [a \in ActionIDs |-> "none"]]

\* main calls StartListening once on the client it created
Init ==
    /\ InitCommon
    /\ startsLeft = 1

\* ------------------------------------------------ StartListening (handshake)
CanStart == ~crashed /\ startsLeft > 0 /\ armed < MaxStarts
            /\ spc \in {"created", "started", "failed"}

\* variant: the read that follows the probe is given no deadline
StartSend_noDeadline ==
    /\ CanStart
    /\ conn = "open"
    /\ spc' = "hs_read"
    /\ startsLeft' = startsLeft - 1
    /\ hsProbe' = TRUE
    /\ hsReply' = NoReply
    /\ hsCause' = ""
    /\ readDeadline' = 0
    /\ deadlinePassed' = FALSE
    /\ wire' = wire \cup {HandshakeProbe}
    /\ hsTries' = hsTries + 1
    /\ UNCHANGED <<appVars, tdVars, loopVars,
                   conn, inbox, cancelled, crashed, armed, kaVars, rcvVars>>

\* c.conn.Write([]byte("\n")) succeeded; SetReadDeadline(now + 5s); the call
\* now blocks in ReadFrom
StartSend ==
    /\ CanStart
    /\ conn = "open"
    /\ spc' = "hs_read"
    /\ startsLeft' = startsLeft - 1
    /\ hsProbe' = TRUE
    /\ hsReply' = NoReply
    /\ hsCause' = ""
    /\ readDeadline' = HandshakeDeadline
    /\ deadlinePassed' = FALSE
    /\ wire' = wire \cup {HandshakeProbe}
    /\ hsTries' = hsTries + 1
    /\ UNCHANGED <<appVars, tdVars, loopVars,
                   conn, inbox, cancelled, crashed, armed, kaVars, rcvVars>>

\* variant: the error of the Write is dropped and the call goes on to read
StartSendFail_continue ==
    /\ CanStart
    /\ spc' = "hs_read"
    /\ startsLeft' = startsLeft - 1
    /\ hsProbe' = FALSE
    /\ hsReply' = NoReply
    /\ hsCause' = "send"
    /\ readDeadline' = HandshakeDeadline
    /\ deadlinePassed' = FALSE
    /\ hsTries' = hsTries + 1
    /\ UNCHANGED <<appVars, tdVars, wire, loopVars,
                   conn, inbox, cancelled, crashed, armed, kaVars, rcvVars>>

\* the Write failed: "error sending initial message to server"
StartSendFail ==
    /\ CanStart
    /\ spc' = "failed"
    /\ startsLeft' = startsLeft - 1
    /\ hsProbe' = FALSE
    /\ hsReply' = NoReply
    /\ hsCause' = "send"
    /\ hsTries' = hsTries + 1
    /\ UNCHANGED <<appVars, tdVars, wire, loopVars,
                   netVars, cancelled, crashed, armed, kaVars, rcvVars>>

\* variant: the goroutine sends a keep-alive as soon as it is spawned
HsReadOk_sendNow ==
    /\ ~crashed
    /\ spc = "hs_read"
    /\ conn = "open"
    /\ inbox # <<>>
    /\ ~deadlinePassed
    /\ hsReply' = Head(inbox)
    /\ inbox' = Tail(inbox)
    /\ armed' = armed + 1
    /\ kpc' = [kpc EXCEPT ![armed + 1] = "write"]
    /\ stack' = [stack EXCEPT ![armed + 1] = <<FirstFrame>>]
    /\ spc' = "started"
    /\ UNCHANGED <<appVars, tdVars, outVars, loopVars,
                   conn, readDeadline, deadlinePassed, cancelled, crashed,
                   startsLeft, hsProbe, hsCause, timer, waits, kaSent, recovered,
                   rcvVars>>

\* ReadFrom returned a datagram before the deadline; its content is only
\* logged.  The goroutine is spawned and blocks in its select on
\* time.After(60s); StartListening returns nil.
HsReadOk ==
    /\ ~crashed
    /\ spc = "hs_read"
    /\ conn = "open"
    /\ inbox # <<>>
    /\ ~deadlinePassed
    /\ hsReply' = Head(inbox)
    /\ inbox' = Tail(inbox)
    /\ armed' = armed + 1
    /\ kpc' = [kpc EXCEPT ![armed + 1] = "period_wait"]
    /\ timer' = [timer EXCEPT ![armed + 1] = KeepAlivePeriod]
    /\ spc' = "started"
    /\ UNCHANGED <<appVars, tdVars, outVars, loopVars,
                   conn, readDeadline, deadlinePassed, cancelled, crashed,
                   startsLeft, hsProbe, hsCause, stack, waits, kaSent, recovered,
                   rcvVars>>

\* variant: the error of ReadFrom is dropped and the goroutine is spawned
HsReadTimeout_arms ==
    /\ ~crashed
    /\ spc = "hs_read"
    /\ deadlinePassed
    /\ spc' = "started"
    /\ hsCause' = ""
    /\ deadlinePassed' = FALSE
    /\ armed' = armed + 1
    /\ kpc' = [kpc EXCEPT ![armed + 1] = "period_wait"]
    /\ timer' = [timer EXCEPT ![armed + 1] = KeepAlivePeriod]
    /\ UNCHANGED <<appVars, tdVars, outVars, loopVars,
                   conn, inbox, readDeadline, cancelled, crashed, startsLeft,
                   hsProbe, hsReply, stack, waits, kaSent, recovered, rcvVars>>

\* variant: after a timeout the probe is written again and the read repeated
HsReadTimeout_retry ==
    /\ ~crashed
    /\ spc = "hs_read"
    /\ deadlinePassed
    /\ hsTries' = hsTries + 1
    /\ deadlinePassed' = FALSE
    /\ UNCHANGED <<appVars, tdVars, wire, loopVars,
                   conn, inbox, readDeadline, cancelled, crashed, hsVars,
                   kaVars, rcvVars>>

\* ReadFrom returned a timeout error: nothing arrived within 5 seconds
HsReadTimeout ==
    /\ ~crashed
    /\ spc = "hs_read"
    /\ deadlinePassed
    /\ spc' = "failed"
    /\ hsCause' = "timeout"
    /\ deadlinePassed' = FALSE
    /\ UNCHANGED <<appVars, tdVars, outVars, loopVars,
                   conn, inbox, readDeadline, cancelled, crashed, startsLeft, hsProbe, hsReply,
                   armed, kaVars, rcvVars>>

\* ReadFrom returned another error (closed socket, ICMP port unreachable)
HsReadErr ==
    /\ ~crashed
    /\ spc = "hs_read"
    /\ spc' = "failed"
    /\ hsCause' = "read"
    /\ UNCHANGED <<appVars, tdVars, outVars, loopVars,
                   netVars, cancelled, crashed, startsLeft, hsProbe, hsReply,
                   armed, kaVars, rcvVars>>

\* ---------------------------------------------------------- environment
\* the bridge (or anyone at its address) sends a datagram to the socket; one
\* that arrives while no read is pending waits in the socket buffer for the
\* next read, which is the same as arriving during that read
PeerSend(d) ==
    /\ ~crashed
    /\ conn = "open"
    /\ (spc = "hs_read" \/ rpc = "blocked")
    /\ Len(inbox) < MaxInbox
    /\ inbox' = Append(inbox, d)
    /\ UNCHANGED <<appVars, tdVars, outVars, loopVars,
                   conn, readDeadline, deadlinePassed, cancelled, crashed,
                   hsVars, kaVars, rcvVars>>

\* the deadline of the pending read elapses with nothing to read
DeadlinePass ==
    /\ ~crashed
    /\ conn = "open"
    /\ (spc = "hs_read" \/ rpc = "blocked")
    /\ readDeadline > 0
    /\ inbox = <<>>
    /\ ~deadlinePassed
    /\ deadlinePassed' = TRUE
    /\ UNCHANGED <<appVars, tdVars, outVars, loopVars,
                   conn, inbox, readDeadline, cancelled, crashed,
                   hsVars, kaVars, rcvVars>>

\* the owner cancels the context it passed to StartListening
Cancel ==
    /\ ~crashed
    /\ ~cancelled
    /\ cancelled' = TRUE
    /\ UNCHANGED <<appVars, tdVars, outVars, loopVars,
                   netVars, crashed, hsVars, kaVars, rcvVars>>

\* ------------------------------------------------- keep-alive goroutine
\* variant: the backoff of a sequence that recovered is kept for the next one
KaTick_carry(t) ==
    /\ ~crashed
    /\ kpc[t] = "period_wait"
    /\ ~cancelled
    /\ kpc' = [kpc EXCEPT ![t] = "write"]
    /\ stack' = [stack EXCEPT ![t] =
                   <<Frame(IF recovered THEN 2 * InitialBackoff
                                        ELSE InitialBackoff, 0)>>]
    /\ timer' = [timer EXCEPT ![t] = 0]
    /\ waits' = [waits EXCEPT ![t] = <<>>]
    /\ UNCHANGED <<appVars, tdVars, outVars, loopVars,
                   netVars, cancelled, crashed, hsVars, kaSent, recovered,
                   rcvVars>>

\* case <-time.After(60 * time.Second): sendKeepAlive(ctx, c.conn, 1s, 0)
KaTick(t) ==
    /\ ~crashed
    /\ kpc[t] = "period_wait"
    /\ ~cancelled
    /\ kpc' = [kpc EXCEPT ![t] = "write"]
    /\ stack' = [stack EXCEPT ![t] = <<FirstFrame>>]
    /\ timer' = [timer EXCEPT ![t] = 0]
    /\ waits' = [waits EXCEPT ![t] = <<>>]
    /\ UNCHANGED <<appVars, tdVars, outVars, loopVars,
                   netVars, cancelled, crashed, hsVars, kaSent, recovered,
                   rcvVars>>

\* case <-ctx.Done(): return
KaDone(t) ==
    /\ ~crashed
    /\ kpc[t] = "period_wait"
    /\ cancelled
    /\ kpc' = [kpc EXCEPT ![t] = "exited"]
    /\ timer' = [timer EXCEPT ![t] = 0]
    /\ UNCHANGED <<appVars, tdVars, outVars, loopVars,
                   netVars, cancelled, crashed, hsVars, stack, waits, kaSent,
                   recovered, rcvVars>>

\* variant: the Write succeeds whatever the state of the socket
KaWriteOk_anyConn(t) ==
    /\ ~crashed
    /\ kpc[t] = "write"
    /\ kaSent' = (kaSent + 1) % SentMod
    /\ recovered' = (recovered \/ Len(stack[t]) > 1)
    /\ kpc' = [kpc EXCEPT ![t] = "return"]
    /\ wire' = wire \cup {KeepAliveProbe}
    /\ UNCHANGED <<appVars, tdVars, hsTries, loopVars,
                   netVars, cancelled, crashed, hsVars, stack, timer, waits,
                   rcvVars>>

\* conn.Write([]byte("\n")) succeeded; the deferred function finds nothing
\* to recover and the innermost call returns
KaWriteOk(t) ==
    /\ ~crashed
    /\ kpc[t] = "write"
    /\ conn = "open"
    /\ kaSent' = (kaSent + 1) % SentMod
    /\ recovered' = (recovered \/ Len(stack[t]) > 1)
    /\ kpc' = [kpc EXCEPT ![t] = "return"]
    /\ wire' = wire \cup {KeepAliveProbe}
    /\ UNCHANGED <<appVars, tdVars, hsTries, loopVars,
                   netVars, cancelled, crashed, hsVars, stack, timer, waits,
                   rcvVars>>

\* conn.Write failed: panic(err), the deferred function of the innermost
\* call recovers it
KaWriteFail(t) ==
    /\ ~crashed
    /\ kpc[t] = "write"
    /\ kpc' = [kpc EXCEPT ![t] = "recover"]
    /\ UNCHANGED <<appVars, tdVars, outVars, loopVars,
                   netVars, cancelled, crashed, hsVars, stack, timer, waits,
                   kaSent, recovered, rcvVars>>

\* variant: before it waits, the retry dials the socket again
KaRetry_redial(t) ==
    /\ ~crashed
    /\ kpc[t] = "recover"
    /\ MayRetry(Top(stack[t]))
    /\ kpc' = [kpc EXCEPT ![t] = "retry_wait"]
    /\ timer' = [timer EXCEPT ![t] = Top(stack[t]).backoff]
    /\ waits' = [waits EXCEPT ![t] = Append(@, Top(stack[t]).backoff)]
    /\ conn' = "open"
    /\ UNCHANGED <<appVars, tdVars, outVars, loopVars,
                   inbox, readDeadline, deadlinePassed, cancelled, crashed,
                   hsVars, stack, kaSent, recovered, rcvVars>>

\* (elapsed + backoff) <= 120s: block in the select on time.After(backoff)
KaRetry(t) ==
    /\ ~crashed
    /\ kpc[t] = "recover"
    /\ MayRetry(Top(stack[t]))
    /\ kpc' = [kpc EXCEPT ![t] = "retry_wait"]
    /\ timer' = [timer EXCEPT ![t] = Top(stack[t]).backoff]
    /\ waits' = [waits EXCEPT ![t] = Append(@, Top(stack[t]).backoff)]
    /\ UNCHANGED <<appVars, tdVars, outVars, loopVars,
                   netVars, cancelled, crashed, hsVars, stack, kaSent,
                   recovered, rcvVars>>

\* else: "Not retrying failed keep-alive", panic(r) leaves the innermost call
KaGiveUp(t) ==
    /\ ~crashed
    /\ kpc[t] = "recover"
    /\ ~MayRetry(Top(stack[t]))
    /\ kpc' = [kpc EXCEPT ![t] = "panic"]
    /\ stack' = [stack EXCEPT ![t] = Pop(@)]
    /\ UNCHANGED <<appVars, tdVars, outVars, loopVars,
                   netVars, cancelled, crashed, hsVars, timer, waits, kaSent,
                   recovered, rcvVars>>

\* case <-time.After(backoff): sendKeepAlive(ctx, conn, 2*backoff,
\* elapsed+backoff), called from inside the deferred function
KaRetryFire(t) ==
    /\ ~crashed
    /\ kpc[t] = "retry_wait"
    /\ ~cancelled
    /\ kpc' = [kpc EXCEPT ![t] = "write"]
    /\ stack' = [stack EXCEPT ![t] = Append(@, NextFrame(Top(@)))]
    /\ timer' = [timer EXCEPT ![t] = 0]
    /\ UNCHANGED <<appVars, tdVars, outVars, loopVars,
                   netVars, cancelled, crashed, hsVars, waits, kaSent,
                   recovered, rcvVars>>

\* case <-ctx.Done(): return, inside the deferred function; the panic was
\* recovered, so the call returns normally
KaRetryDone(t) ==
    /\ ~crashed
    /\ kpc[t] = "retry_wait"
    /\ cancelled
    /\ kpc' = [kpc EXCEPT ![t] = "return"]
    /\ timer' = [timer EXCEPT ![t] = 0]
    /\ UNCHANGED <<appVars, tdVars, outVars, loopVars,
                   netVars, cancelled, crashed, hsVars, stack, waits, kaSent,
                   recovered, rcvVars>>

\* variant: the goroutine leaves its loop after the first keep-alive
KaReturn_once(t) ==
    /\ ~crashed
    /\ kpc[t] = "return"
    /\ stack' = [stack EXCEPT ![t] = Pop(@)]
    /\ IF Len(stack[t]) = 1
          THEN /\ kpc' = [kpc EXCEPT ![t] = "exited"]
               /\ waits' = [waits EXCEPT ![t] = <<>>]
          ELSE UNCHANGED <<kpc, waits>>
    /\ UNCHANGED <<appVars, tdVars, outVars, loopVars,
                   netVars, cancelled, crashed, hsVars, timer, kaSent,
                   recovered, rcvVars>>

\* a call of sendKeepAlive returns: to the deferred function of the
\* enclosing call, which has nothing left to do, or to the loop of the
\* goroutine, which blocks in its select again
KaReturn(t) ==
    /\ ~crashed
    /\ kpc[t] = "return"
    /\ stack' = [stack EXCEPT ![t] = Pop(@)]
    /\ IF Len(stack[t]) = 1
          THEN /\ kpc' = [kpc EXCEPT ![t] = "period_wait"]
               /\ timer' = [timer EXCEPT ![t] = KeepAlivePeriod]
               /\ waits' = [waits EXCEPT ![t] = <<>>]
          ELSE UNCHANGED <<kpc, timer, waits>>
    /\ UNCHANGED <<appVars, tdVars, outVars, loopVars,
                   netVars, cancelled, crashed, hsVars, kaSent,
                   recovered, rcvVars>>

\* variant: the deferred function of the enclosing call recovers the panic
\* once more
KaUnwind_recover(t) ==
    /\ ~crashed
    /\ kpc[t] = "panic"
    /\ stack[t] # <<>>
    /\ kpc' = [kpc EXCEPT ![t] = "recover"]
    /\ UNCHANGED <<appVars, tdVars, outVars, loopVars,
                   netVars, cancelled, crashed, hsVars, stack, timer, waits,
                   kaSent, recovered, rcvVars>>

\* the re-raised panic leaves the deferred function of an enclosing call,
\* whose recover() has already been spent
KaUnwind(t) ==
    /\ ~crashed
    /\ kpc[t] = "panic"
    /\ stack[t] # <<>>
    /\ stack' = [stack EXCEPT ![t] = Pop(@)]
    /\ UNCHANGED <<appVars, tdVars, outVars, loopVars,
                   netVars, cancelled, crashed, hsVars, kpc, timer, waits,
                   kaSent, recovered, rcvVars>>

\* variant: the goroutine recovers the panic and goes back to its loop
KaCrash_resume(t) ==
    /\ ~crashed
    /\ kpc[t] = "panic"
    /\ stack[t] = <<>>
    /\ kpc' = [kpc EXCEPT ![t] = "period_wait"]
    /\ timer' = [timer EXCEPT ![t] = KeepAlivePeriod]
    /\ waits' = [waits EXCEPT ![t] = <<>>]
    /\ UNCHANGED <<appVars, tdVars, outVars, loopVars,
                   netVars, cancelled, crashed, hsVars, stack, kaSent,
                   recovered, rcvVars>>

\* variant: the socket is released once more when the process dies
KaCrash_reclose(t) ==
    /\ ~crashed
    /\ kpc[t] = "panic"
    /\ stack[t] = <<>>
    /\ kpc' = [kpc EXCEPT ![t] = "crashed"]
    /\ crashed' = TRUE
    /\ conn' = "closed"
    /\ closes' = closes + 1
    /\ UNCHANGED <<appVars, redo, outVars, loopVars,
                   inbox, readDeadline, deadlinePassed, cancelled, hsVars,
                   stack, timer, waits, kaSent, recovered, rcvVars>>

\* the panic reaches the top of the goroutine: the runtime terminates the
\* process, and with it the socket if it is still open
KaCrash(t) ==
    /\ ~crashed
    /\ kpc[t] = "panic"
    /\ stack[t] = <<>>
    /\ kpc' = [kpc EXCEPT ![t] = "crashed"]
    /\ crashed' = TRUE
    /\ conn' = "closed"
    /\ closes' = IF conn = "open" THEN closes + 1 ELSE closes
    /\ UNCHANGED <<appVars, redo, outVars, loopVars,
                   inbox, readDeadline, deadlinePassed, cancelled, hsVars,
                   stack, timer, waits, kaSent, recovered, rcvVars>>

\* ------------------------------------------------ Receive and StopListening
\* datagrams that decode without error
WellFormed(d) == Decode(Parse(d)).ok

\* the Topic of the Update a datagram decodes to, "" when there is none
Topic(d) == Decode(Parse(d)).upd.t

\* Receive(timeout): sets the read deadline to now + timeout and performs
\* one datagram read; the position of the caller is the caller's business
ReceiveBegin ==
    /\ ~crashed
    /\ spc = "started"
    /\ rpc = "idle"
    /\ rpc' = "blocked"
    /\ readDeadline' = ReceiveTimeout
    /\ deadlinePassed' = FALSE
    /\ UNCHANGED <<appVars, tdVars, outVars, published,
                   conn, inbox, cancelled, crashed, hsVars, kaVars, rres, rtopic>>

\* Receive called directly by the owner of the client, as the tests do
RecvCall ==
    /\ lpc = "none"
    /\ ReceiveBegin
    /\ UNCHANGED lpc

\* variant: the read returns the newest datagram of the socket buffer
RecvData_newest ==
    /\ ~crashed
    /\ rpc = "blocked"
    /\ conn = "open"
    /\ inbox # <<>>
    /\ ~deadlinePassed
    /\ rres' = IF WellFormed(inbox[Len(inbox)]) THEN "update"
                                                ELSE "decode_error"
    /\ rtopic' = Topic(inbox[Len(inbox)])
    /\ inbox' = SubSeq(inbox, 1, Len(inbox) - 1)
    /\ rpc' = "idle"
    /\ UNCHANGED <<appVars, tdVars, outVars, loopVars,
                   conn, readDeadline, deadlinePassed, cancelled, crashed,
                   hsVars, kaVars>>

\* a datagram arrived before the deadline: the decoded Update or a DecodeError
RecvData ==
    /\ ~crashed
    /\ rpc = "blocked"
    /\ conn = "open"
    /\ inbox # <<>>
    /\ ~deadlinePassed
    /\ rres' = IF WellFormed(Head(inbox)) THEN "update" ELSE "decode_error"
    /\ rtopic' = Topic(Head(inbox))
    /\ inbox' = Tail(inbox)
    /\ rpc' = "idle"
    /\ UNCHANGED <<appVars, tdVars, outVars, loopVars,
                   conn, readDeadline, deadlinePassed, cancelled, crashed,
                   hsVars, kaVars>>

\* nothing arrived before the deadline: TimeoutError
RecvTimeout ==
    /\ ~crashed
    /\ rpc = "blocked"
    /\ conn = "open"
    /\ deadlinePassed
    /\ rres' = "timeout"
    /\ rtopic' = ""
    /\ rpc' = "idle"
    /\ deadlinePassed' = FALSE
    /\ UNCHANGED <<appVars, tdVars, outVars, loopVars,
                   conn, inbox, readDeadline, cancelled, crashed, hsVars, kaVars>>

\* variant: a read on the closed transport is reported as a timeout
RecvClosed_timeout ==
    /\ ~crashed
    /\ rpc = "blocked"
    /\ conn = "closed"
    /\ rres' = "timeout"
    /\ rtopic' = ""
    /\ rpc' = "idle"
    /\ UNCHANGED <<appVars, tdVars, outVars, loopVars,
                   netVars, cancelled, crashed, hsVars, kaVars>>

\* the transport is closed: ClosedError
RecvClosed ==
    /\ ~crashed
    /\ rpc = "blocked"
    /\ conn = "closed"
    /\ rres' = "closed"
    /\ rtopic' = ""
    /\ rpc' = "idle"
    /\ UNCHANGED <<appVars, tdVars, outVars, loopVars,
                   netVars, cancelled, crashed, hsVars, kaVars>>

\* StopListening: raises the cancellation signal and closes the transport
StopListening ==
    /\ ~crashed
    /\ spc # "hs_read"
    /\ (~cancelled \/ conn = "open")
    /\ cancelled' = TRUE
    /\ conn' = "closed"
    /\ closes' = IF conn = "open" THEN closes + 1 ELSE closes
    /\ UNCHANGED <<appVars, redo, outVars, loopVars,
                   inbox, readDeadline, deadlinePassed, crashed, hsVars,
                   kaVars, rcvVars>>

\* ------------------------------------- consumption loop of the owner (main)
\* the bridge pushes a state update to the client
PeerPush(u) ==
    /\ ~crashed
    /\ conn = "open"
    /\ rpc = "blocked"
    /\ Len(inbox) < MaxInbox
    /\ Len(published) < MaxPublished
    /\ inbox' = Append(inbox, u)
    /\ UNCHANGED <<appVars, tdVars, outVars, loopVars,
                   conn, readDeadline, deadlinePassed, cancelled, crashed,
                   hsVars, kaVars, rcvVars>>

\* the peer sends to a client that has shaken hands, whether or not a read
\* is pending and whether or not earlier datagrams are still unread
PeerBurst(d) ==
    /\ ~crashed
    /\ conn = "open"
    /\ spc = "started"
    /\ Len(inbox) < MaxBurst
    /\ inbox' = Append(inbox, d)
    /\ UNCHANGED <<appVars, tdVars, outVars, loopVars,
                   conn, readDeadline, deadlinePassed, cancelled, crashed,
                   hsVars, kaVars, rcvVars>>

\* StartListening returned nil: go func() { for { select { ... } } }()
LoopSpawn ==
    /\ ~crashed
    /\ spc = "started"
    /\ lpc = "none"
    /\ lpc' = "select"
    /\ UNCHANGED <<appVars, tdVars, outVars, published, netVars, cancelled, crashed,
                   hsVars, kaVars, rcvVars>>

\* case <-ctx.Done(): return
LoopExit ==
    /\ ~crashed
    /\ lpc = "select"
    /\ cancelled
    /\ lpc' = "exited"
    /\ UNCHANGED <<appVars, tdVars, outVars, published, netVars, cancelled, crashed,
                   hsVars, kaVars, rcvVars>>

\* default: update, err := pushClient.Receive(10 * time.Second)
LoopReceive ==
    /\ lpc = "select"
    /\ ~cancelled
    /\ ReceiveBegin
    /\ lpc' = "handle"

\* variant: a timeout of Receive is treated like every other error
LoopTimeout_panic ==
    /\ ~crashed
    /\ lpc = "handle"
    /\ rpc = "idle"
    /\ rres = "timeout"
    /\ lpc' = "dead"
    /\ crashed' = TRUE
    /\ conn' = "closed"
    /\ closes' = IF conn = "open" THEN closes + 1 ELSE closes
    /\ UNCHANGED <<appVars, redo, outVars, published, inbox, readDeadline,
                   deadlinePassed, cancelled, hsVars, kaVars, rcvVars>>

\* err is a bondhome.Timeout: no panic; update is nil, so nothing is
\* published or logged and the loop goes round
LoopTimeout ==
    /\ ~crashed
    /\ lpc = "handle"
    /\ rpc = "idle"
    /\ rres = "timeout"
    /\ lpc' = "select"
    /\ UNCHANGED <<appVars, tdVars, outVars, published, netVars, cancelled, crashed,
                   hsVars, kaVars, rcvVars>>

\* err is not a bondhome.Timeout: panic("error receiving from Bond
\* Bridge"), which nothing recovers; the process dies
LoopPanic ==
    /\ ~crashed
    /\ lpc = "handle"
    /\ rpc = "idle"
    /\ rres \in {"decode_error", "closed"}
    /\ lpc' = "dead"
    /\ crashed' = TRUE
    /\ conn' = "closed"
    /\ closes' = IF conn = "open" THEN closes + 1 ELSE closes
    /\ UNCHANGED <<appVars, redo, outVars, published, inbox, readDeadline,
                   deadlinePassed, cancelled, hsVars, kaVars, rcvVars>>

\* variant: the update is published to its own topic, without the prefix
LoopPublish_bare ==
    /\ ~crashed
    /\ lpc = "handle"
    /\ rpc = "idle"
    /\ rres = "update"
    /\ rtopic # ""
    /\ published' = Append(published, rtopic)
    /\ lpc' = "select"
    /\ UNCHANGED <<appVars, tdVars, outVars, netVars, cancelled, crashed,
                   hsVars, kaVars, rcvVars>>

\* update.Topic != "": mqttClient.Publish("bondhome/" + update.Topic, ...)
LoopPublish ==
    /\ ~crashed
    /\ lpc = "handle"
    /\ rpc = "idle"
    /\ rres = "update"
    /\ rtopic # ""
    /\ published' = Append(published, "bondhome/" \o rtopic)
    /\ lpc' = "select"
    /\ UNCHANGED <<appVars, tdVars, outVars, netVars, cancelled, crashed,
                   hsVars, kaVars, rcvVars>>

\* variant: an update without a topic is taken for a failure
LoopSkip_panic ==
    /\ ~crashed
    /\ lpc = "handle"
    /\ rpc = "idle"
    /\ rres = "update"
    /\ rtopic = ""
    /\ lpc' = "dead"
    /\ crashed' = TRUE
    /\ conn' = "closed"
    /\ closes' = IF conn = "open" THEN closes + 1 ELSE closes
    /\ UNCHANGED <<appVars, redo, outVars, published, inbox, readDeadline,
                   deadlinePassed, cancelled, hsVars, kaVars, rcvVars>>

\* update.Topic == "": an error message is logged, anything else is dropped
LoopSkip ==
    /\ ~crashed
    /\ lpc = "handle"
    /\ rpc = "idle"
    /\ rres = "update"
    /\ rtopic = ""
    /\ lpc' = "select"
    /\ UNCHANGED <<appVars, tdVars, outVars, published, netVars, cancelled, crashed,
                   hsVars, kaVars, rcvVars>>

\* cancel() called on a context that is already cancelled: a no-op
CancelAgain ==
    /\ ~crashed
    /\ cancelled
    /\ redo < MaxRedo
    /\ redo' = redo + 1
    /\ UNCHANGED <<appVars, closes, outVars, loopVars, netVars, cancelled, crashed,
                   hsVars, kaVars, rcvVars>>

\* StopListening on a session that is already Closed: the signal is raised
\* already and the transport is not released a second time
StopAgain ==
    /\ ~crashed
    /\ spc # "hs_read"
    /\ cancelled
    /\ conn = "closed"
    /\ redo < MaxRedo
    /\ redo' = redo + 1
    /\ UNCHANGED <<appVars, closes, outVars, loopVars, netVars, cancelled, crashed,
                   hsVars, kaVars, rcvVars>>

\* the session of the push client and its environment
NextSession ==
    \/ StartSend
    \/ StartSendFail
    \/ HsReadOk
    \/ HsReadTimeout
    \/ HsReadErr
    \/ \E d \in Datagrams : PeerSend(d)
    \/ DeadlinePass
    \/ Cancel
    \/ StopListening
    \/ RecvData
    \/ RecvTimeout
    \/ RecvClosed
    \/ \E t \in Tasks : KaTick(t)
    \/ \E t \in Tasks : KaDone(t)
    \/ \E t \in Tasks : KaWriteOk(t)
    \/ \E t \in Tasks : KaWriteFail(t)
    \/ \E t \in Tasks : KaRetry(t)
    \/ \E t \in Tasks : KaGiveUp(t)
    \/ \E t \in Tasks : KaRetryFire(t)
    \/ \E t \in Tasks : KaRetryDone(t)
    \/ \E t \in Tasks : KaReturn(t)
    \/ \E t \in Tasks : KaUnwind(t)
    \/ \E t \in Tasks : KaCrash(t)

\* the client driven call by call
Next ==
    \/ NextSession
    \/ RecvCall

Spec == Init /\ [][Next]_vars

\* an owner that repeats its teardown requests
NextTeardown ==
    \/ Next
    \/ CancelAgain
    \/ StopAgain

TeardownSpec == Init /\ [][NextTeardown]_vars

\* The Go scheduler runs every runnable goroutine, armed timers fire and a
\* blocked Write or read returns.
Fairness ==
    /\ \A t \in Tasks : WF_vars(KaTick(t))
    /\ \A t \in Tasks : WF_vars(KaDone(t))
    /\ \A t \in Tasks : WF_vars(KaWriteOk(t) \/ KaWriteFail(t))
    /\ \A t \in Tasks : WF_vars(KaRetry(t))
    /\ \A t \in Tasks : WF_vars(KaGiveUp(t))
    /\ \A t \in Tasks : WF_vars(KaRetryFire(t))
    /\ \A t \in Tasks : WF_vars(KaRetryDone(t))
    /\ \A t \in Tasks : WF_vars(KaReturn(t))
    /\ \A t \in Tasks : WF_vars(KaUnwind(t))
    /\ \A t \in Tasks : WF_vars(KaCrash(t))
    /\ WF_vars(RecvClosed)

FairSpec == Spec /\ Fairness

\* Time passes, so a deadline that was set elapses when nothing arrives; a
\* blocked ReadFrom returns when a datagram is there, when its deadline has
\* passed and when the socket has been closed.
StartFairness ==
    /\ WF_vars(DeadlinePass)
    /\ WF_vars(HsReadOk)
    /\ WF_vars(HsReadTimeout)
    /\ WF_vars(HsReadErr /\ conn = "closed")

FairStartSpec == Spec /\ StartFairness

\* ------------------------------------------------ round trip of an update
sessionVars == <<netVars, cancelled, crashed, hsVars, kaVars, rcvVars,
                 tdVars, outVars, loopVars>>

\* the bridge encodes an update
CodecEncode(u, x, omit) ==
    /\ cpc = "idle"
    /\ cpc' = "encoded"
    /\ cIn' = u
    /\ cWire' = Encode(u, x, omit)
    /\ UNCHANGED <<cOut, sessionVars, bridgeVars>>

\* the client decodes the datagram
CodecDecode ==
    /\ cpc = "encoded"
    /\ cpc' = "decoded"
    /\ cOut' = Decode(cWire)
    /\ UNCHANGED <<cIn, cWire, sessionVars, bridgeVars>>

\* the round trip is over
CodecReset ==
    /\ cpc = "decoded"
    /\ cpc' = "idle"
    /\ cIn' = ZeroUpdate
    /\ cWire' = NotJSON
    /\ cOut' = [ok |-> FALSE, upd |-> ZeroUpdate]
    /\ UNCHANGED <<sessionVars, bridgeVars>>

NextCodec ==
    \/ \E u \in UpdateValues, x \in Extras, omit \in BOOLEAN :
          CodecEncode(u, x, omit)
    \/ CodecDecode
    \/ CodecReset

CodecSpec == Init /\ [][NextCodec]_vars

\* ------------------------------------------------- REST client of the bridge
liveVars == <<netVars, cancelled, hsVars, kaVars, rcvVars, tdVars, outVars,
              loopVars>>

Hostnames == {"http://bond.local", "http://bond local"}

\* text url.Parse rejects: a blank in the host name, a broken escape
Unparsable == {"http://bond local", "%zz"}

\* the urlPath each method formats
Path(op, dev, act) ==
    CASE op = "ExecuteAction" -> "v2/devices/" \o dev \o "/actions/" \o act
      [] op = "GetDevice" -> "v2/devices/" \o dev
      [] OTHER -> "v2/devices"

\* http.NewRequest parses hostname + "/" + urlPath
ParseOK(host, op, dev, act) ==
    /\ host \notin Unparsable
    /\ op \in {"ExecuteAction", "GetDevice"} => dev \notin Unparsable
    /\ op = "ExecuteAction" => act \notin Unparsable

Statuses == {199, 200, 204, 299, 300, 304, 404, 503}

IdKeys == {"_", "aa", "bb", "%zz"}

\* bodies: text that is no JSON, a body whose read fails, null, an array,
\* objects keyed by device id, a device, a device with an ill-typed member
Bodies ==
    {Body(k, {}, TRUE, <<>>) : k \in {"text", "cut", "null", "array"}}
        \cup {Body("object", ks, TRUE, <<>>) : ks \in SUBSET IdKeys}
        \cup {Body("object", {"name", "actions"}, TRUE,
                   <<"TurnOn", "SetSpeed">>),
              Body("object", {"name", "actions"}, FALSE, <<>>)}

\* variant: a redirection status counts as success
Expect2xx_below400(st) == st >= 200 /\ st < 400

\* expect2xxResponse returns nil
Expect2xx(st) == st >= 200 /\ st < 300

\* unmarshalResponseBody returns nil: the body is read, it is JSON, and its
\* value fits the target (null leaves the target as it is)
Unmarshals(b, into) ==
    /\ b.kind \in {"object", "null"}
    /\ into = "Device" => b.typed

\* the orders in which a range over a map with these keys can visit them
Orderings(S) ==
    {s \in [1 .. Cardinality(S) -> S] :
        \A i, j \in 1 .. Cardinality(S) : s[i] = s[j] => i = j}

\* main creates the client for the bridge it was given
NewBridge(h) ==
    /\ ~crashed
    /\ hostname = ""
    /\ hostname' = h
    /\ UNCHANGED <<hpc, hop, hdev, hact, harg, hdo, hwire, hstatus, hbody,
                   hres, hids, hactions, handlerVars, codecVars, setupVars, sessionVars>>

\* entry of ExecuteAction, GetDevice or GetDeviceIDs
RestBegin(op, dev, act, arg) ==
    /\ ~crashed
    /\ hostname # ""
    /\ hpc = "idle"
    /\ hpc' = "new"
    /\ hop' = op
    /\ hdev' = dev
    /\ hact' = act
    /\ harg' = arg
    /\ hdo' = 0
    /\ hwire' = 0
    /\ hstatus' = 0
    /\ hbody' = NoBody
    /\ hres' = "none"
    /\ hids' = <<>>
    /\ hactions' = <<>>
    /\ UNCHANGED <<hostname, codecVars, setupVars, sessionVars>>

CallGetDeviceIDs ==
    /\ RestBegin("GetDeviceIDs", "", "", "")
    /\ UNCHANGED handlerVars

CallGetDevice(dev) ==
    /\ RestBegin("GetDevice", dev, "", "")
    /\ UNCHANGED handlerVars

CallExecuteAction(dev, act, arg) ==
    /\ RestBegin("ExecuteAction", dev, act, arg)
    /\ UNCHANGED handlerVars

\* c.newRequest: the error of http.NewRequest is returned at once
RestNewRequest ==
    /\ ~crashed
    /\ hpc = "new"
    /\ IF ParseOK(hostname, hop, hdev, hact)
       THEN hpc' = "built" /\ hres' = hres
       ELSE hpc' = "done" /\ hres' = "error"
    /\ UNCHANGED <<hostname, hop, hdev, hact, harg, hdo, hwire, hstatus,
                   hbody, hids, hactions, handlerVars, codecVars, setupVars,
                   sessionVars>>

\* c.client.Do fails: the request did not go out, or no response came back
RestDoFail(w) ==
    /\ ~crashed
    /\ hpc = "built"
    /\ hdo' = hdo + 1
    /\ hwire' = hwire + w
    /\ hpc' = "done"
    /\ hres' = "error"
    /\ UNCHANGED <<hostname, hop, hdev, hact, harg, hstatus, hbody, hids,
                   hactions, handlerVars, codecVars, setupVars, sessionVars>>

\* c.client.Do returns a response, after following hops redirections
RestDo(st, hops) ==
    /\ ~crashed
    /\ hpc = "built"
    /\ hdo' = hdo + 1
    /\ hwire' = hwire + 1 + hops
    /\ hstatus' = st
    /\ hpc' = "responded"
    /\ UNCHANGED <<hostname, hop, hdev, hact, harg, hbody, hres, hids,
                   hactions, handlerVars, codecVars, setupVars, sessionVars>>

\* expect2xxResponse; ExecuteAction returns nil after it
RestExpect ==
    /\ ~crashed
    /\ hpc = "responded"
    /\ IF ~Expect2xx(hstatus)
       THEN hpc' = "done" /\ hres' = "error"
       ELSE IF hop = "ExecuteAction"
            THEN hpc' = "done" /\ hres' = "ok"
            ELSE hpc' = "unmarshal" /\ hres' = hres
    /\ UNCHANGED <<hostname, hop, hdev, hact, harg, hdo, hwire, hstatus,
                   hbody, hids, hactions, handlerVars, codecVars, setupVars,
                   sessionVars>>

\* GetDevice: unmarshalResponseBody reads the body b into a Device
RestDevice(b) ==
    /\ ~crashed
    /\ hpc = "unmarshal"
    /\ hop = "GetDevice"
    /\ hbody' = b
    /\ hpc' = "done"
    /\ IF Unmarshals(b, "Device")
       THEN hres' = "ok" /\ hactions' = b.actions
       ELSE hres' = "error" /\ hactions' = hactions
    /\ UNCHANGED <<hostname, hop, hdev, hact, harg, hdo, hwire, hstatus,
                   hids, handlerVars, codecVars, setupVars, sessionVars>>

\* GetDeviceIDs: unmarshalResponseBody of the body b into a map returned
\* an error
RestIDsError(b) ==
    /\ ~crashed
    /\ hpc = "unmarshal"
    /\ hop = "GetDeviceIDs"
    /\ ~Unmarshals(b, "map")
    /\ hbody' = b
    /\ hpc' = "done"
    /\ hres' = "error"
    /\ UNCHANGED <<hostname, hop, hdev, hact, harg, hdo, hwire, hstatus,
                   hids, hactions, handlerVars, codecVars, setupVars, sessionVars>>

\* GetDeviceIDs: make([]string, 0, len(responseObject)-1) with an empty map
\* asks for a negative capacity, which panics
RestIDsPanic(b) ==
    /\ ~crashed
    /\ hpc = "unmarshal"
    /\ hop = "GetDeviceIDs"
    /\ Unmarshals(b, "map")
    /\ Cardinality(b.keys) - 1 < 0
    /\ hbody' = b
    /\ hpc' = "dead"
    /\ hres' = "panic"
    /\ crashed' = TRUE
    /\ UNCHANGED <<hostname, hop, hdev, hact, harg, hdo, hwire, hstatus,
                   hids, hactions, handlerVars, codecVars, setupVars, liveVars>>

\* GetDeviceIDs: every key but "_" is appended, in the order of the range
RestIDs(b, order) ==
    /\ ~crashed
    /\ hpc = "unmarshal"
    /\ hop = "GetDeviceIDs"
    /\ Unmarshals(b, "map")
    /\ Cardinality(b.keys) - 1 >= 0
    /\ order \in Orderings(b.keys)
    /\ hbody' = b
    /\ hids' = SelectSeq(order, LAMBDA k : k # "_")
    /\ hpc' = "done"
    /\ hres' = "ok"
    /\ UNCHANGED <<hostname, hop, hdev, hact, harg, hdo, hwire, hstatus,
                   hactions, handlerVars, codecVars, setupVars, sessionVars>>

\* the frame of a call that returned is gone
RestClear ==
    /\ hpc' = "idle"
    /\ hop' = "none"
    /\ hdev' = ""
    /\ hact' = ""
    /\ harg' = ""
    /\ hdo' = 0
    /\ hwire' = 0
    /\ hstatus' = 0
    /\ hbody' = NoBody
    /\ hres' = "none"
    /\ hids' = <<>>
    /\ hactions' = <<>>
    /\ UNCHANGED hostname

\* a direct caller has the result
RestReturn ==
    /\ ~crashed
    /\ hpc = "done"
    /\ mpc # "executing"
    /\ RestClear
    /\ UNCHANGED <<handlerVars, codecVars, setupVars, sessionVars>>

\* ------------------------------------------------ action handlers of main
Payloads == {"{}", "{\"argument\": 3}", "3", "null", ""}

\* json.Unmarshal(payload, &map[string]interface{}{}) returns nil
IsObject(p) == p \in {"{}", "{\"argument\": 3}", "null"}

\* the argument passed on for a payload
Wrap(p) == IF IsObject(p) THEN p ELSE "{\"body\": " \o p \o "}"

TopicOf(dev, act) == "bondhome/devices/" \o dev \o "/" \o act

\* actionHandler: subscribes a callback for one action of one device and
\* returns an error if the subscription failed
Subscribe(dev, act, ok) ==
    /\ ~crashed
    /\ subs' = IF ok
               THEN subs \cup {[topic |-> TopicOf(dev, act), dev |-> dev,
                                act |-> act]}
               ELSE subs
    /\ sres' = IF ok THEN "ok" ELSE "error"
    /\ UNCHANGED <<mpc, mtopic, mdev, mact, mpayload, mcalls, macked,
                   restVars, codecVars, sessionVars>>

\* actionHandler called on its own
HandlerSubscribe(dev, act, ok) ==
    /\ Cardinality(subs) < MaxSubs
    /\ Subscribe(dev, act, ok)
    /\ UNCHANGED setupVars

\* the broker delivers a message on a subscribed topic
HandlerDeliver(sub, p) ==
    /\ ~crashed
    /\ sub \in subs
    /\ mpc \in {"idle", "handled"}
    /\ mpc' = "callback"
    /\ mtopic' = sub.topic
    /\ mdev' = sub.dev
    /\ mact' = sub.act
    /\ mpayload' = p
    /\ mcalls' = 0
    /\ macked' = FALSE
    /\ UNCHANGED <<subs, sres, restVars, codecVars, setupVars, sessionVars>>

\* the callback wraps the payload if need be and calls ExecuteAction
HandlerExecute ==
    /\ mpc = "callback"
    /\ RestBegin("ExecuteAction", mdev, mact, Wrap(mpayload))
    /\ mcalls' = mcalls + 1
    /\ mpc' = "executing"
    /\ UNCHANGED <<subs, sres, mtopic, mdev, mact, mpayload, macked>>

\* variant: the message is acknowledged whatever ExecuteAction returned
HandlerFinish_ackAlways ==
    /\ ~crashed
    /\ mpc = "executing"
    /\ hpc = "done"
    /\ macked' = TRUE
    /\ mpc' = "handled"
    /\ RestClear
    /\ UNCHANGED <<subs, sres, mtopic, mdev, mact, mpayload, mcalls,
                   codecVars, setupVars, sessionVars>>

\* the callback acknowledges the message unless ExecuteAction failed
HandlerFinish ==
    /\ ~crashed
    /\ mpc = "executing"
    /\ hpc = "done"
    /\ macked' = (hres = "ok")
    /\ mpc' = "handled"
    /\ RestClear
    /\ UNCHANGED <<subs, sres, mtopic, mdev, mact, mpayload, mcalls,
                   codecVars, setupVars, sessionVars>>

NextBridge ==
    \/ \E h \in Hostnames : NewBridge(h)
    \/ CallGetDeviceIDs
    \/ \E dev \in DeviceIDs : CallGetDevice(dev)
    \/ \E dev \in DeviceIDs, act \in ActionIDs :
          CallExecuteAction(dev, act, "{}")
    \/ RestNewRequest
    \/ \E w \in 0 .. 1 : RestDoFail(w)
    \/ \E st \in Statuses, hops \in 0 .. MaxHops : RestDo(st, hops)
    \/ RestExpect
    \/ \E b \in Bodies : RestDevice(b)
    \/ \E b \in Bodies : RestIDsError(b)
    \/ \E b \in Bodies : RestIDsPanic(b)
    \/ \E b \in Bodies : \E order \in Orderings(b.keys) : RestIDs(b, order)
    \/ RestReturn
    \/ \E dev \in DeviceIDs, act \in ActionIDs, ok \in BOOLEAN :
          HandlerSubscribe(dev, act, ok)
    \/ \E sub \in subs, p \in Payloads : HandlerDeliver(sub, p)
    \/ HandlerExecute
    \/ HandlerFinish

BridgeSpec == Init /\ [][NextBridge]_vars

\* ------------------------------------------ setupDeviceActionHandlers
\* bodies a bridge can answer a request for the device ids with
IdBodies == {b \in Bodies : b.keys \subseteq IdKeys}

\* what a call of GetDeviceIDs comes to when Do succeeds or not (do), the
\* response has status st and body b
IDsResult(host, do, st, b) ==
    IF ~ParseOK(host, "GetDeviceIDs", "", "") \/ ~do \/ ~Expect2xx(st)
          \/ ~Unmarshals(b, "map")
    THEN "error"
    ELSE IF Cardinality(b.keys) - 1 < 0 THEN "panic" ELSE "ok"

\* what a call of GetDevice comes to
DeviceResult(host, dev, do, st, b) ==
    IF ~ParseOK(host, "GetDevice", dev, "") \/ ~do \/ ~Expect2xx(st)
          \/ ~Unmarshals(b, "Device")
    THEN "error"
    ELSE "ok"

Range(q) == {q[i] : i \in 1 .. Len(q)}

\* bridge.GetDeviceIDs() returned an error: it is wrapped and returned
SetupIDsError(do, st, b) ==
    /\ ~crashed
    /\ hostname # ""
    /\ upc = "idle"
    /\ IDsResult(hostname, do, st, b) = "error"
    /\ uidres' = "error"
    /\ upc' = "returned"
    /\ ures' = "error"
    /\ UNCHANGED <<uids, gpc, gdev, gres, apc, restVars, handlerVars,
                   codecVars, sessionVars>>

\* bridge.GetDeviceIDs() panicked
SetupIDsPanic(do, st, b) ==
    /\ ~crashed
    /\ hostname # ""
    /\ upc = "idle"
    /\ IDsResult(hostname, do, st, b) = "panic"
    /\ uidres' = "panic"
    /\ upc' = "dead"
    /\ crashed' = TRUE
    /\ UNCHANGED <<uids, ures, gpc, gdev, gres, apc, restVars, handlerVars,
                   codecVars, liveVars>>

\* bridge.GetDeviceIDs() returned the ids: one g.Go per id, then g.Wait()
SetupSpawn(do, st, b, order) ==
    /\ ~crashed
    /\ hostname # ""
    /\ upc = "idle"
    /\ IDsResult(hostname, do, st, b) = "ok"
    /\ order \in Orderings(b.keys)
    /\ uidres' = "ok"
    /\ uids' = SelectSeq(order, LAMBDA k : k # "_")
    /\ gpc' = [d \in DeviceIDs |->
                 IF d \in b.keys \ {"_"} THEN "fetch" ELSE "none"]
    /\ upc' = "wait"
    /\ UNCHANGED <<ures, gdev, gres, apc, restVars, handlerVars, codecVars,
                   sessionVars>>

\* goroutine of a device: bridge.GetDevice(localDeviceID); its error is
\* returned, else one hg.Go per action of the device, then hg.Wait()
GoFetch(dev, do, st, b) ==
    /\ ~crashed
    /\ gpc[dev] = "fetch"
    /\ IF DeviceResult(hostname, dev, do, st, b) = "error"
       THEN /\ gdev' = [gdev EXCEPT ![dev] = "error"]
            /\ gpc' = [gpc EXCEPT ![dev] = "done"]
            /\ gres' = [gres EXCEPT ![dev] = "error"]
            /\ apc' = apc
       ELSE /\ gdev' = [gdev EXCEPT ![dev] = "ok"]
            /\ gpc' = [gpc EXCEPT ![dev] = "wait"]
            /\ gres' = gres
            /\ apc' = [apc EXCEPT ![dev] =
                          [a \in ActionIDs |->
                              IF a \in Range(b.actions) THEN "running"
                              ELSE "none"]]
    /\ UNCHANGED <<upc, uidres, uids, ures, restVars, handlerVars,
                   codecVars, sessionVars>>

\* goroutine of an action: actionHandler(mqttClient, bridge, device, action)
GoHandler(dev, act, ok) ==
    /\ apc[dev][act] = "running"
    /\ Subscribe(dev, act, ok)
    /\ apc' = [apc EXCEPT ![dev][act] = IF ok THEN "ok" ELSE "error"]
    /\ UNCHANGED <<upc, uidres, uids, ures, gpc, gdev, gres>>

\* hg.Wait() returns when every handler call is over, with the first error
GoWait(dev) ==
    /\ ~crashed
    /\ gpc[dev] = "wait"
    /\ \A a \in ActionIDs : apc[dev][a] # "running"
    /\ gpc' = [gpc EXCEPT ![dev] = "done"]
    /\ gres' = [gres EXCEPT ![dev] =
                   IF \E a \in ActionIDs : apc[dev][a] = "error"
                   THEN "error" ELSE "ok"]
    /\ UNCHANGED <<upc, uidres, uids, ures, gdev, apc, restVars,
                   handlerVars, codecVars, sessionVars>>

\* g.Wait() returns when every goroutine is over, with the first error
SetupWait ==
    /\ ~crashed
    /\ upc = "wait"
    /\ \A d \in DeviceIDs : gpc[d] \in {"none", "done"}
    /\ upc' = "returned"
    /\ ures' = IF \E d \in DeviceIDs : gres[d] = "error"
               THEN "error" ELSE "ok"
    /\ UNCHANGED <<uidres, uids, gpc, gdev, gres, apc, restVars,
                   handlerVars, codecVars, sessionVars>>

NextSetup ==
    \/ \E h \in Hostnames : NewBridge(h)
    \/ \E do \in BOOLEAN, st \in Statuses, b \in IdBodies :
          SetupIDsError(do, st, b)
    \/ \E do \in BOOLEAN, st \in Statuses, b \in IdBodies :
          SetupIDsPanic(do, st, b)
    \/ \E do \in BOOLEAN, st \in Statuses, b \in IdBodies :
          \E order \in Orderings(b.keys) : SetupSpawn(do, st, b, order)
    \/ \E dev \in DeviceIDs, do \in BOOLEAN, st \in Statuses, b \in Bodies :
          GoFetch(dev, do, st, b)
    \/ \E dev \in DeviceIDs, act \in ActionIDs, ok \in BOOLEAN :
          GoHandler(dev, act, ok)
    \/ \E dev \in DeviceIDs : GoWait(dev)
    \/ SetupWait

SetupSpec == Init /\ [][NextSetup]_vars

\* an owner that calls StartListening again on the same client
InitMulti ==
    /\ InitCommon
    /\ startsLeft = MaxStarts

\* the start calls, the environment and the keep-alive goroutines
NextMulti ==
    \/ StartSend
    \/ StartSendFail
    \/ HsReadOk
    \/ HsReadTimeout
    \/ HsReadErr
    \/ \E d \in Datagrams : PeerSend(d)
    \/ DeadlinePass
    \/ Cancel
    \/ \E t \in Tasks : KaTick(t)
    \/ \E t \in Tasks : KaDone(t)
    \/ \E t \in Tasks : KaWriteOk(t)
    \/ \E t \in Tasks : KaWriteFail(t)
    \/ \E t \in Tasks : KaRetry(t)
    \/ \E t \in Tasks : KaGiveUp(t)
    \/ \E t \in Tasks : KaRetryFire(t)
    \/ \E t \in Tasks : KaRetryDone(t)
    \/ \E t \in Tasks : KaReturn(t)
    \/ \E t \in Tasks : KaUnwind(t)
    \/ \E t \in Tasks : KaCrash(t)

MultiSpec == InitMulti /\ [][NextMulti]_vars

\* the client driven call by call while the peer sends at any time
NextRecv ==
    \/ Next
    \/ \E d \in Datagrams \cup Updates : PeerBurst(d)

RecvSpec == Init /\ [][NextRecv]_vars

\* the client driven by main: setupDeviceStateHandlers spawns the loop
NextLoop ==
    \/ NextSession
    \/ \E u \in Updates \cup Garbled : PeerPush(u)
    \/ LoopSpawn
    \/ LoopExit
    \/ LoopReceive
    \/ LoopTimeout
    \/ LoopPanic
    \/ LoopPublish
    \/ LoopSkip

LoopSpec == Init /\ [][NextLoop]_vars

\* the loop goroutine is scheduled, and the read of a Receive returns: with
\* a datagram, at its deadline or because the socket was closed
LoopFairness ==
    /\ WF_vars(LoopExit)
    /\ WF_vars(LoopReceive)
    /\ WF_vars(LoopTimeout)
    /\ WF_vars(LoopPanic)
    /\ WF_vars(LoopPublish)
    /\ WF_vars(LoopSkip)
    /\ WF_vars(RecvData)
    /\ WF_vars(RecvTimeout)

FairLoopSpec == LoopSpec /\ Fairness /\ LoopFairness

TypeOK ==
    /\ conn \in {"open", "closed"}
    /\ cancelled \in BOOLEAN
    /\ crashed \in BOOLEAN
    /\ Len(inbox) <= (IF MaxBurst > MaxInbox THEN MaxBurst ELSE MaxInbox)
    /\ Len(published) <= MaxPublished
    /\ redo \in 0 .. MaxRedo
    /\ closes \in 0 .. 1
    /\ hsTries \in 0 .. MaxStarts
    /\ lpc \in {"none", "select", "handle", "exited", "dead"}
    /\ armed \in 0 .. MaxStarts
    /\ kaSent \in 0 .. SentMod - 1
    /\ hostname \in Hostnames \cup {""}
    /\ hpc \in {"idle", "new", "built", "responded", "unmarshal", "done",
                "dead"}
    /\ hop \in {"none", "ExecuteAction", "GetDevice", "GetDeviceIDs"}
    /\ hdo \in 0 .. 1
    /\ hwire \in 0 .. 1 + MaxHops
    /\ hstatus \in Statuses \cup {0}
    /\ hbody \in Bodies \cup {NoBody}
    /\ hres \in {"none", "ok", "error", "panic"}
    /\ mpc \in {"idle", "callback", "executing", "handled"}
    /\ mcalls \in 0 .. 1
    /\ macked \in BOOLEAN
    /\ sres \in {"none", "ok", "error"}
    /\ upc \in {"idle", "wait", "returned", "dead"}
    /\ uidres \in {"none", "ok", "error", "panic"}
    /\ ures \in {"none", "ok", "error"}
    /\ \A d \in DeviceIDs :
          /\ gpc[d] \in {"none", "fetch", "wait", "done"}
          /\ gdev[d] \in {"none", "ok", "error"}
          /\ gres[d] \in {"none", "ok", "error"}
          /\ \A a \in ActionIDs :
                apc[d][a] \in {"none", "running", "ok", "error"}

\* ================================================================ claims
RECURSIVE Pow2(_)
Pow2(n) == IF n = 0 THEN 1 ELSE 2 * Pow2(n - 1)

RECURSIVE SumSeq(_)
SumSeq(q) == IF q = <<>> THEN 0 ELSE Head(q) + SumSeq(Tail(q))

Returned == spc \in {"started", "failed"}
Running(t) == kpc[t] \in {"period_wait", "write", "recover", "retry_wait", "return"}
Fatal(t) == kpc[t] \in {"panic", "crashed"}

\* C1: StartListening returns success, with the keep-alive goroutine armed,
\* exactly when its probe was written and the handshake read returned a
\* datagram (of any content) before the deadline; whenever a keep-alive
\* goroutine exists, a handshake reply has been received.
C1_StartSucceedsIffReply ==
    /\ Returned =>
         ((spc = "started") <=> (hsProbe /\ hsReply \in Datagrams))
    /\ spc = "started" => armed >= 1
    /\ \A t \in Tasks : kpc[t] # "none" => (armed >= t /\ hsReply \in Datagrams)
    /\ armed > 0 => hsReply \in Datagrams

\* a start that succeeded on an empty reply, with its goroutine waiting
C1_Witness ==
    /\ spc = "started"
    /\ hsReply = ""
    /\ armed = 1
    /\ kpc[1] = "period_wait"

\* C2: a start whose probe could not be written, whose read timed out or
\* whose read failed returns an error; no keep-alive goroutine is ever armed
\* and no keep-alive is ever written for that session.
C2_FailedHandshakeNeverArms ==
    /\ hsCause # "" => /\ spc = "failed"
                       /\ armed = 0
                       /\ \A t \in Tasks : kpc[t] = "none"
                       /\ kaSent = 0
    /\ spc = "failed" => hsCause \in {"send", "timeout", "read"}
    /\ (hsCause = "send") <=> (Returned /\ ~hsProbe)

\* a start that failed on the handshake deadline
C2_Witness ==
    /\ spc = "failed"
    /\ hsCause = "timeout"
    /\ hsProbe

\* C3: within a retry sequence the wait before the k-th retry is 2^(k-1)
\* seconds.
C3_WaitsDouble ==
    \A t \in Tasks :
        /\ \A k \in 1 .. Len(waits[t]) : waits[t][k] = Pow2(k - 1)
        /\ kpc[t] = "retry_wait" =>
             (Len(waits[t]) >= 1 /\ timer[t] = Pow2(Len(waits[t]) - 1))

\* six consecutive failures: the waits were 1, 2, 4, 8, 16 and 32 seconds
C3_Witness ==
    /\ kpc[1] = "retry_wait"
    /\ waits[1] = <<1, 2, 4, 8, 16, 32>>

\* C4: after a failed write the sequence goes on with a further wait when
\* the waits made so far plus the next one are within 120 seconds, and is
\* abandoned with a panic otherwise; a panic is raised only when the waits
\* made plus the next one exceed 120 seconds.
C4_FatalExactlyPastBudget ==
    [][\A t \in Tasks :
         /\ Fatal(t)' => SumSeq(waits'[t]) + Pow2(Len(waits'[t])) > 120
         /\ kpc'[t] = "retry_wait" => SumSeq(waits'[t]) <= 120
         /\ (kpc[t] = "recover" /\ kpc'[t] # "recover") =>
               IF SumSeq(waits[t]) + Pow2(Len(waits[t])) <= 120
                  THEN /\ kpc'[t] = "retry_wait"
                       /\ timer'[t] = Pow2(Len(waits[t]))
                       /\ ~crashed'
                  ELSE kpc'[t] = "panic"]_vars

\* the seventh consecutive failure: 63 seconds waited, 64 more would pass
\* the budget, the panic is re-raised
C4_Witness ==
    /\ kpc[1] = "panic"
    /\ SumSeq(waits[1]) = 63
    /\ ~cancelled

\* C5: once the cancellation is raised during a retry sequence, at any
\* point of its writes and waits, the sequence never raises the fatal panic.
C5_NoFatalAfterCancel ==
    [][\A t \in Tasks :
         (cancelled /\ kpc[t] \in {"write", "recover", "retry_wait"}) =>
            kpc'[t] # "panic"]_vars

C7_ProbesKeepComing ==
    \A k \in 0 .. SentMod - 1 :
        (spc = "started" /\ kaSent = k) ~>
            (kaSent # k \/ cancelled \/ crashed)

\* two keep-alives written, the goroutine waits for the third period
C7_Witness ==
    /\ spc = "started"
    /\ kaSent = 2
    /\ kpc[1] = "period_wait"
    /\ ~cancelled
    /\ ~recovered

\* C8: after a write that succeeded the calls only return, without a further
\* write, until the goroutine waits for the next period with an empty stack;
\* the next tick starts from backoff 1s and elapsed 0, and the first wait of
\* every sequence is 1 second.
C8_SuccessEndsSequence ==
    [][\A t \in Tasks :
         /\ kpc[t] = "return" =>
              (kaSent' = kaSent /\ kpc'[t] \in {"return", "period_wait"})
         /\ kpc'[t] = "period_wait" =>
              (stack'[t] = <<>> /\ timer'[t] = 60)
         /\ (kpc[t] = "period_wait" /\ kpc'[t] = "write") =>
              (stack'[t] = <<[backoff |-> 1, elapsed |-> 0]>>
               /\ waits'[t] = <<>>)
         /\ (Len(waits[t]) = 0 /\ Len(waits'[t]) = 1) =>
              (waits'[t] = <<1>> /\ Top(stack'[t]).elapsed = 0)]_vars

\* a sequence recovered earlier; a later tick failed and waits 1 second
C8_Witness ==
    /\ recovered
    /\ kpc[1] = "retry_wait"
    /\ waits[1] = <<1>>
    /\ timer[1] = 1

\* C9: once the cancellation is raised, every keep-alive goroutine that is
\* running eventually exits through the Done case of one of its selects.
C9_CancelledTaskExits ==
    \A t \in Tasks : (cancelled /\ Running(t)) ~> (kpc[t] = "exited")

\* C10: a Receive that returns on a closed transport returns ClosedError, and
\* a Receive blocked on a closed transport returns (while the process lives).
C10_ReceiveAfterCloseReturnsClosed ==
    /\ [][(rpc = "blocked" /\ rpc' = "idle" /\ conn = "closed") =>
             rres' = "closed"]_vars
    /\ (rpc = "blocked" /\ conn = "closed") ~>
           ((rpc = "idle" /\ rres = "closed") \/ crashed)

\* a Receive returned ClosedError after StopListening
C10_Witness ==
    /\ rpc = "idle"
    /\ rres = "closed"
    /\ conn = "closed"
    /\ cancelled
    /\ ~crashed

\* C11: raising the cancellation signal again and stopping a session that
\* is already Closed change nothing and do not kill the process, and over
\* any sequence of stop requests and budget exhaustion the socket is
\* released at most once, namely when the transport goes from open to closed.
C11_TeardownIdempotent ==
    [][/\ closes' <= 1
       /\ (closes' = 1) <=> (conn' = "closed")
       /\ closes' # closes => (conn = "open" /\ conn' = "closed")
       /\ redo' # redo =>
            /\ cancelled /\ cancelled'
            /\ UNCHANGED <<conn, crashed, closes, kaVars, rcvVars, hsVars>>
      ]_vars

\* the owner stopped the session, repeated its requests, and the pending
\* keep-alive sequence then exhausted its budget
C11_Witness ==
    /\ redo = MaxRedo
    /\ crashed
    /\ cancelled
    /\ closes = 1
\* the step closes an open transport at the owner's request
StopStep == conn = "open" /\ conn' = "closed" /\ cancelled' /\ ~crashed'

\* the step is the death of the process by a keep-alive sequence whose next
\* wait would not fit in the retry budget
ExhaustionStep ==
    \E t \in Tasks :
        /\ kpc[t] = "panic"
        /\ kpc'[t] = "crashed"
        /\ waits[t] # <<>>
        /\ SumSeq(waits[t]) + 2 * waits[t][Len(waits[t])] > RetryBudget

\* C12: a step that closes the transport of an Active session or kills the
\* process is a stop request or the exhaustion of the keep-alive retry
\* budget; no receive timeout, no decode error and no keep-alive send
\* failure within the budget does either.
C12_OnlyExhaustionIsFatal ==
    [][(conn = "open" /\ ~crashed /\ (conn' = "closed" \/ crashed'))
          => (StopStep \/ ExhaustionStep)]_vars

\* C13: a DecodeError returned by Receive leaves the session as it is, and
\* the consumption loop that handles it goes back to its select to call
\* Receive again.
C13_DecodeErrorNotFatal ==
    [][/\ (rpc = "blocked" /\ rpc' = "idle" /\ rres' = "decode_error")
            => (conn' = conn /\ crashed' = crashed /\ cancelled' = cancelled)
       /\ (lpc = "handle" /\ rpc = "idle" /\ rres = "decode_error"
             /\ lpc' # lpc)
            => (lpc' = "select" /\ ~crashed' /\ conn' = conn)
      ]_vars

\* C14: a Receive on an open transport on which nothing arrives returns a
\* timeout and leaves the session Active; the consumption loop publishes
\* nothing for a timeout, goes back to its select and, unless the context is
\* cancelled or the process dies meanwhile, calls Receive again.
C14_TimeoutKeepsSessionActive ==
    /\ [][/\ (rpc = "blocked" /\ rpc' = "idle" /\ conn = "open"
                /\ inbox = <<>>)
               => rres' = "timeout"
          /\ (rpc = "blocked" /\ rpc' = "idle" /\ rres' = "timeout")
               => /\ conn = "open" /\ conn' = "open"
                  /\ ~crashed'
                  /\ spc' = "started"
                  /\ UNCHANGED <<inbox, published, cancelled, kaVars>>
          /\ (lpc = "handle" /\ rpc = "idle" /\ rres = "timeout"
                /\ lpc' # lpc)
               => /\ lpc' = "select"
                  /\ UNCHANGED <<published, conn, crashed, cancelled>>
          ]_vars
    /\ (lpc = "handle" /\ rpc = "idle" /\ rres = "timeout")
          ~> (rpc = "blocked" \/ cancelled \/ crashed)

\* the loop is blocked in the Receive it issued after a timeout, having
\* published an update before
C14_Witness ==
    /\ lpc = "handle"
    /\ rpc = "blocked"
    /\ rres = "timeout"
    /\ conn = "open"
    /\ published # <<>>
\* C15: a Receive call that returns has made one read: it returns an Update
\* or a DecodeError for the oldest unread datagram, which it takes off the
\* socket, or a timeout or closed error, which take nothing.  The socket
\* buffer only changes by an arrival at its end or by one reader taking its
\* head, so each datagram is returned at most once and in arrival order.
C15_OneReadInArrivalOrder ==
    [][/\ (rpc = "blocked" /\ rpc' = "idle") =>
            \/ /\ rres' = "update"
               /\ inbox # <<>>
               /\ WellFormed(Head(inbox))
               /\ rtopic' = Topic(Head(inbox))
               /\ inbox' = Tail(inbox)
            \/ /\ rres' = "decode_error"
               /\ inbox # <<>>
               /\ ~WellFormed(Head(inbox))
               /\ inbox' = Tail(inbox)
            \/ /\ rres' \in {"timeout", "closed"}
               /\ inbox' = inbox
       /\ (rpc = "idle" /\ rpc' = "blocked") =>
            (readDeadline' = ReceiveTimeout /\ inbox' = inbox)
       /\ inbox' # inbox =>
            \/ \E d \in Datagrams \cup Updates : inbox' = Append(inbox, d)
            \/ /\ inbox # <<>>
               /\ inbox' = Tail(inbox)
               /\ (rpc = "blocked" /\ rpc' = "idle")
                    # (spc = "hs_read" /\ spc' = "started")
      ]_vars

\* a Receive returned a DecodeError for the older of two unread datagrams
\* and left the newer one, a state update, on the socket
C15_Witness ==
    /\ rpc = "idle"
    /\ rres = "decode_error"
    /\ Len(inbox) = 1
    /\ Head(inbox) \in Updates
\* C16: every payload the client has put on the socket, by the handshake,
\* by a periodic keep-alive or by a retry, is the single line feed; a
\* handshake probe or a keep-alive that was written is among them.
C16_EveryProbeIsLineFeed ==
    /\ \A p \in wire : p = "\n"
    /\ (hsProbe \/ kaSent > 0 \/ recovered) => wire # {}

\* the handshake probe, a periodic keep-alive and a retry have been written
C16_Witness ==
    /\ hsProbe
    /\ kaSent = 2
    /\ recovered
    /\ wire = {"\n"}
\* C17: the number of Write calls made for a handshake equals the number
\* of start calls made: each call writes its probe once, whether it then
\* succeeds, times out or fails, and only a new call of the owner writes
\* another.
C17_OneProbePerStart ==
    /\ hsTries = MaxStarts - startsLeft
    /\ spc = "created" => hsTries = 0
    /\ spc = "hs_read" => hsTries >= 1

\* a first start timed out, the owner called again and that call failed on
\* its read
C17_Witness ==
    /\ hsTries = 2
    /\ startsLeft = MaxStarts - 2
    /\ spc = "failed"
    /\ hsCause = "read"
    /\ armed = 0
\* the state of the Push Session as the specification names it
SessionState ==
    IF conn = "closed" \/ crashed THEN "Closed"
    ELSE IF spc = "hs_read" THEN "Handshaking"
    ELSE IF spc = "started" THEN "Active"
    ELSE "Created"

\* C18: a step taken from a Closed session leaves it Closed, whether it is
\* a start, a receive, a stop, a cancellation or a step of a keep-alive
\* goroutine; it writes no probe on the transport and arms no goroutine.
C18_ClosedIsTerminal ==
    [][SessionState = "Closed" =>
          /\ SessionState' = "Closed"
          /\ conn' = conn
          /\ closes' = closes
          /\ kaSent' = kaSent
          /\ wire' = wire
          /\ armed' = armed
          /\ hsProbe' => hsProbe
          /\ rres' \in {rres, "closed"}
      ]_vars

\* on a session that was stopped, and stopped again, a Receive returned the
\* closed error and a keep-alive whose write failed is in its retry wait
C18_Witness ==
    /\ conn = "closed"
    /\ ~crashed
    /\ redo > 0
    /\ rres = "closed"
    /\ \E t \in Tasks : kpc[t] = "retry_wait"

\* C19: however many start calls the owner makes on a client, at most one
\* keep-alive goroutine is spawned for it, and at most one is running.
C19_AtMostOneScheduler ==
    /\ armed <= 1
    /\ Cardinality({t \in Tasks : Running(t)}) <= 1

\* C20: the transport only ever changes from open to closed, by a stop
\* request or the death of the process; the steps of a keep-alive goroutine
\* read nothing from the socket and set no read deadline, and the steps of
\* a Receive write nothing and neither close nor reopen the transport.
C20_TransportOnlyClosedOnce ==
    [][/\ conn' # conn =>
            (conn = "open" /\ conn' = "closed" /\ (StopStep \/ crashed'))
       /\ \A t \in Tasks :
            (kpc[t] # "none" /\ <<kpc[t], stack[t], timer[t]>>'
                                 # <<kpc[t], stack[t], timer[t]>>)
               => /\ UNCHANGED <<inbox, readDeadline, deadlinePassed, rcvVars>>
                  /\ conn' # conn => crashed'
       /\ (rpc' # rpc \/ rres' # rres) =>
            UNCHANGED <<conn, closes, wire, kaSent, cancelled, crashed>>
      ]_vars

\* a keep-alive retry has succeeded and a Receive has returned an Update,
\* all on the transport that was opened at construction
C20_Witness ==
    /\ conn = "open"
    /\ closes = 0
    /\ recovered
    /\ rres = "update"
    /\ rpc = "idle"
\* C21: the decode of the datagram an update was encoded to succeeds and
\* returns an Update equal to the original in BondID, Topic, StatusCode,
\* HTTPMethod, ErrorID and ErrorMsg, whether or not the zero fields were
\* written and whatever members without a field the datagram carries.
C21_DecodeInvertsEncode ==
    cpc = "decoded" => (cOut.ok /\ cOut.upd = cIn)

\* an error message with a status, written with three members the structure
\* does not know, has been decoded
C21_Witness ==
    /\ cpc = "decoded"
    /\ cIn.err_msg = "fail"
    /\ cIn.m = 255
    /\ cIn.t = ""
    /\ Len(cWire.members) = 6
    /\ cOut.upd = cIn
\* a Receive returns with the datagram d, the oldest unread one
Returns(d) ==
    /\ rpc = "blocked"
    /\ rpc' = "idle"
    /\ inbox # <<>>
    /\ Head(inbox) = d
    /\ inbox' = Tail(inbox)

\* the consumption loop acts on the result of its Receive
Handles(res) ==
    /\ lpc = "handle"
    /\ rpc = "idle"
    /\ rres = res
    /\ lpc' # lpc

\* C22: a Receive that read an empty datagram, text that is no JSON or an
\* object whose members do not fit the Update returns a DecodeError and no
\* Update; whenever the result is a DecodeError there is no Update with it,
\* and the loop publishes nothing for it.
C22_MalformedYieldsNoUpdate ==
    [][/\ \A d \in {"", "junk", GarbledMsg} :
            Returns(d) => (rres' = "decode_error" /\ rtopic' = "")
       /\ rres' = "decode_error" => rtopic' = ""
       /\ Handles("decode_error") => published' = published
      ]_vars

\* the loop holds the DecodeError of a Receive, after it published an update
C22_Witness ==
    /\ lpc = "handle"
    /\ rpc = "idle"
    /\ rres = "decode_error"
    /\ rtopic = ""
    /\ published # <<>>

\* C23: the echo of a probe, which has neither topic nor error message, is
\* returned by Receive as an Update with an empty Topic; the loop that
\* handles an Update with an empty Topic publishes nothing, does not die and
\* goes back to its select.
C23_EchoIsAnUpdate ==
    [][/\ Returns(EchoMsg) => (rres' = "update" /\ rtopic' = "")
       /\ (Handles("update") /\ rtopic = "") =>
            /\ lpc' = "select"
            /\ UNCHANGED <<published, conn, crashed, cancelled>>
      ]_vars

\* the loop is back at its select after an Update without a topic, with
\* nothing published and the session open
C23_Witness ==
    /\ lpc = "select"
    /\ rres = "update"
    /\ rtopic = ""
    /\ published = <<>>
    /\ conn = "open"
    /\ ~crashed

\* C24: the list of published topics only grows when the loop handles an
\* Update whose Topic is not empty, and then by "bondhome/" followed by that
\* Topic; handling such an Update always publishes it, and handling any
\* other result publishes nothing.
C24_PublishIffTopic ==
    [][/\ published' # published =>
            (Handles("update") /\ rtopic # "")
       /\ (Handles("update") /\ rtopic = "devices/aa/state") =>
            published' = Append(published, "bondhome/devices/aa/state")
       /\ \A res \in {"timeout", "decode_error", "closed"} :
            Handles(res) => published' = published
       /\ (Handles("update") /\ rtopic = "") => published' = published
       /\ \A i \in 1 .. Len(published') :
            published'[i] = "bondhome/devices/aa/state"
      ]_vars

\* a state update was published and an Update without a topic, received
\* after it, was not
C24_Witness ==
    /\ published = <<"bondhome/devices/aa/state">>
    /\ lpc = "select"
    /\ rres = "update"
    /\ rtopic = ""
\* C25: for a message delivered on the topic of a subscription, the callback
\* calls ExecuteAction once, with the device and the action of that topic,
\* before it is done with the message, and it has acknowledged the message
\* exactly when that call returned no error.
C25_OneCallAckIffOk ==
    [][/\ mcalls' # mcalls =>
            \/ mpc' = "callback" /\ mcalls' = 0
            \/ /\ mpc = "callback"
               /\ mcalls' = 1
               /\ hpc' = "new"
               /\ hop' = "ExecuteAction"
               /\ mtopic = "bondhome/devices/" \o hdev' \o "/" \o hact'
       /\ mpc' = "handled" => mcalls' = 1
       /\ (mpc = "executing" /\ mpc' = "handled") =>
            /\ hop = "ExecuteAction"
            /\ hpc = "done"
            /\ macked' <=> hres = "ok"
       /\ macked' # macked => mpc' # mpc
       /\ mpc \in {"callback", "executing"} => ~macked
      ]_vars

\* a message with a payload that is no object was handled, with one call,
\* and was not acknowledged
C25_Witness ==
    /\ mpc = "handled"
    /\ mcalls = 1
    /\ ~macked
    /\ mpayload = "3"
    /\ mtopic = "bondhome/devices/aa/TurnOn"

\* C26 (as stated): every call of ExecuteAction, GetDevice or GetDeviceIDs
\* that is over has issued exactly one HTTP request, has failed if the
\* status was outside 200..299 and has succeeded only for a 2xx status.
C26_ExactlyOneRequest ==
    hpc \in {"done", "dead"} =>
        /\ hwire = 1
        /\ hstatus \notin 200 .. 299 => hres = "error"
        /\ hres = "ok" => hstatus \in 200 .. 299

\* C26 (amended): a call of ExecuteAction, GetDevice or GetDeviceIDs calls
\* Do of the HTTP client at most once, never a second time: not at all when
\* the request cannot be built, exactly once otherwise.  A call that is over
\* has failed if no response came or its status was outside 200..299, and
\* has succeeded only for a 2xx response.
C26_AtMostOneDo ==
    /\ hdo <= 1
    /\ hpc \in {"done", "dead"} =>
        /\ hdo = 0 <=> (hostname \in Unparsable \/ hdev = "%zz")
        /\ hdo = 0 => hwire = 0
        /\ hstatus \notin 200 .. 299 => hres = "error"
        /\ hres = "ok" => (hdo = 1 /\ hstatus \in 200 .. 299)

\* ExecuteAction made one request, got 503 and returned an error
C26_Witness ==
    /\ hpc = "done"
    /\ hop = "ExecuteAction"
    /\ hdo = 1
    /\ hwire = 1
    /\ hstatus = 503
    /\ hres = "error"

\* C27: a call of GetDeviceIDs that got a 2xx response whose body is a JSON
\* object has, once past the body, returned without failure the keys of the
\* object other than "_", each once.
C27_IdsAreTheDeviceKeys ==
    (/\ hop = "GetDeviceIDs"
     /\ hstatus \in 200 .. 299
     /\ hbody.kind = "object") =>
        /\ hres = "ok"
        /\ {hids[i] : i \in 1 .. Len(hids)} = hbody.keys \ {"_"}
        /\ Len(hids) = Cardinality(hbody.keys \ {"_"})
\* C28: a StartListening call that blocks in the read of the handshake
\* always leaves it, also when the peer never replies, and it leaves it
\* either with success or with a HandshakeError that carries a cause.
C28_StartTerminates ==
    /\ [][(spc = "hs_read" /\ spc' # "hs_read") =>
             \/ spc' = "started" /\ hsCause' = ""
             \/ spc' = "failed" /\ hsCause' \in {"timeout", "read"}]_vars
    /\ (spc = "hs_read") ~> (spc \in {"started", "failed"} \/ crashed)

\* the start returned a HandshakeError after the deadline, the peer having
\* sent nothing
C28_Witness ==
    /\ spc = "failed"
    /\ hsCause = "timeout"
    /\ hsProbe
    /\ hsReply = NoReply
    /\ inbox = <<>>
    /\ readDeadline = HandshakeDeadline
\* C29: a send sequence begins only at a tick of the period timer, when no
\* sequence of the goroutine is in progress; the period timer is armed only
\* when the goroutine is spawned and when the outermost call of a sequence
\* has returned, never while a sequence runs; a goroutine begins by waiting
\* one period; and a probe is written only by a call of a sequence.
C29_OneSequenceAtATime ==
    [][/\ \A t \in Tasks :
            (stack[t] = <<>> /\ stack'[t] # <<>>) =>
                (kpc[t] = "period_wait" /\ timer[t] = KeepAlivePeriod)
       /\ \A t \in Tasks :
            (timer'[t] = KeepAlivePeriod /\ timer[t] # KeepAlivePeriod) =>
                (stack'[t] = <<>> /\ kpc[t] \in {"none", "return"})
       /\ \A t \in Tasks :
            (kpc[t] = "none" /\ kpc'[t] # "none") =>
                (kpc'[t] = "period_wait" /\ timer'[t] = KeepAlivePeriod)
       /\ \A t \in Tasks :
            stack'[t] # <<>> => timer'[t] # KeepAlivePeriod
       /\ kaSent' # kaSent =>
            \E t \in Tasks : kpc[t] = "write" /\ stack[t] # <<>>
      ]_vars

\* the goroutine is in the wait of a retry, its period timer is not armed
C29_Witness ==
    /\ kpc[1] = "retry_wait"
    /\ Len(stack[1]) = 2
    /\ timer[1] = 2
    /\ kaSent = 1
    /\ ~cancelled

\* C30: once the innermost call finds the budget exhausted and panics again,
\* the goroutine only unwinds: no wait is scheduled, no probe is sent and no
\* call is made until the panic reaches the top, where the process dies, once
\* and for good; nothing but the exhausted budget starts such a panic.
C30_FatalPropagates ==
    [][\A t \in Tasks :
         /\ (kpc[t] # "panic" /\ kpc'[t] = "panic") =>
               /\ kpc[t] = "recover"
               /\ Top(stack[t]).elapsed + Top(stack[t]).backoff > RetryBudget
         /\ kpc[t] = "panic" =>
               /\ kpc'[t] \in {"panic", "crashed"}
               /\ timer'[t] = timer[t]
               /\ waits'[t] = waits[t]
               /\ kaSent' = kaSent
               /\ Len(stack'[t]) <= Len(stack[t])
               /\ kpc'[t] = "crashed" => stack[t] = <<>>
         /\ (kpc[t] # "crashed" /\ kpc'[t] = "crashed") =>
               (~crashed /\ crashed')
         /\ kpc[t] = "crashed" => (kpc'[t] = "crashed" /\ crashed')
      ]_vars

\* the panic of the exhausted budget is half way through the enclosing calls
C30_Witness ==
    /\ kpc[1] = "panic"
    /\ Len(stack[1]) = 3
    /\ Len(waits[1]) = 6
    /\ ~crashed
    /\ ~cancelled

\* C31: in every call of a retry sequence the elapsed time is the backoff
\* minus one second, the backoff of the i-th call being 2^(i-1) seconds; so
\* a sequence has at most 7 calls, hence 7 sends, its waits are at most 32
\* seconds each and 63 seconds together, a failed send before the 7th is
\* always retried and the fatal failure comes with the 7th failed send, after
\* the six waits.
C31_RetryArithmetic ==
    \A t \in Tasks :
        /\ Len(stack[t]) <= 7
        /\ \A i \in 1 .. Len(stack[t]) :
              /\ stack[t][i].backoff = Pow2(i - 1)
              /\ stack[t][i].elapsed = stack[t][i].backoff - 1
        /\ Len(waits[t]) <= 6
        /\ \A i \in 1 .. Len(waits[t]) :
              waits[t][i] = Pow2(i - 1) /\ waits[t][i] <= 32
        /\ SumSeq(waits[t]) <= 63
        /\ kpc[t] \in {"write", "recover"} =>
              Len(waits[t]) + 1 = Len(stack[t])
        /\ (kpc[t] = "recover" /\ Len(stack[t]) < 7) =>
              Top(stack[t]).elapsed + Top(stack[t]).backoff <= 120
        /\ (kpc[t] = "recover" /\ Len(stack[t]) = 7) =>
              Top(stack[t]).elapsed + Top(stack[t]).backoff > 120
        /\ kpc[t] \in {"panic", "crashed"} =>
              (Len(waits[t]) = 6 /\ SumSeq(waits[t]) = 63)

\* the 7th send of a sequence has failed, 63 seconds of waits behind it
C31_Witness ==
    /\ kpc[1] = "recover"
    /\ Len(stack[1]) = 7
    /\ Top(stack[1]) = [backoff |-> 64, elapsed |-> 63]
    /\ waits[1] = <<1, 2, 4, 8, 16, 32>>

\* C32: once its call of GetDeviceIDs is over, setupDeviceActionHandlers is
\* waiting for its goroutines or has returned, and it has returned an error
\* if that call did not succeed; when it has returned, every fetch and every
\* subscription it started is over, and it has returned success exactly
\* when GetDeviceIDs, the GetDevice of every id and the subscription of
\* every action of every device succeeded.
C32_SetupSucceedsIffAll ==
    /\ uidres # "none" => upc \in {"wait", "returned"}
    /\ uidres \notin {"none", "ok"} => (upc = "returned" /\ ures = "error")
    /\ upc = "returned" =>
          /\ \A d \in DeviceIDs :
                /\ gpc[d] \in {"none", "done"}
                /\ \A a \in ActionIDs : apc[d][a] # "running"
          /\ ures = "ok" <=>
                /\ uidres = "ok"
                /\ \A d \in Range(uids) :
                      /\ gdev[d] = "ok"
                      /\ \A a \in ActionIDs : apc[d][a] \in {"none", "ok"}
                      /\ \A a \in ActionIDs :
                            apc[d][a] = "ok" =>
                                \E sub \in subs :
                                    sub.topic = "bondhome/devices/" \o d
                                                    \o "/" \o a
====
